---- MODULE Spec2Model ----
(***************************************************************************)
(* EventHub browser client: the API client session layer and the event    *)
(* catalog page.                                                           *)
(*                                                                         *)
(* APIClient.request / refreshToken / login / logout / isAuthenticated     *)
(* (src/frontend/js/dashboard.js), API_CONFIG.getHeaders and the           *)
(* registration form (src/frontend/js/auth.js), and the catalog page's     *)
(* loadEvents with its filter, search and pagination handlers              *)
(* (src/unnamed/part_000), run by a single-threaded event loop: every      *)
(* action below is one run-to-completion step between two awaits.          *)
(***************************************************************************)
EXTENDS Integers, Sequences, FiniteSets, TLC

(***************************************************************************)
(* Bounds of the model.                                                    *)
(***************************************************************************)
NumProcs == 2      \* call slots: logical calls that may be in flight at once
MaxCalls == 2      \* logical calls begun in one behaviour
MaxDepth == 3      \* nested request frames of one logical call
MaxTokens == 3     \* tokens the server issues in one behaviour
MaxLoads == 3      \* loadEvents calls begun in one behaviour, the first one included
MaxInputs == 2     \* input events of the search box in one behaviour
MaxOpens == 2      \* openEventModal calls begun in one behaviour
MaxPurchases == 1  \* purchaseTicket calls begun in one behaviour

Procs == 1..NumProcs

(***************************************************************************)
(* Values.  Tokens are opaque strings; the n-th token the server issues is *)
(* written n.  Null is what localStorage.getItem gives for a missing key   *)
(* and what a missing JSON field reads as; Undefined is the string         *)
(* "undefined" that setItem(key, undefined) stores.                        *)
(***************************************************************************)
Null == 0
Undefined == 0 - 1
RefreshOf(n) == n + 10      \* the refresh token issued together with access token n

Truthy(v) == v # Null

EmptyObj == [access |-> Null, refresh |-> Null, detail |-> "", error |-> "", payload |-> ""]

\* Response bodies: json says whether the text is valid JSON; the other
\* fields are the members of the JSON object (or, for payload, the raw text).
TokensBody(a, r) == [json |-> TRUE, access |-> a, refresh |-> r, detail |-> "", error |-> "", payload |-> ""]
PayloadBody == [json |-> TRUE, access |-> Null, refresh |-> Null, detail |-> "", error |-> "", payload |-> "P"]
DetailErrorBody == [json |-> TRUE, access |-> Null, refresh |-> Null, detail |-> "D", error |-> "E", payload |-> ""]
ErrorBody == [json |-> TRUE, access |-> Null, refresh |-> Null, detail |-> "", error |-> "E", payload |-> ""]
HtmlBody == [json |-> FALSE, access |-> Null, refresh |-> Null, detail |-> "", error |-> "", payload |-> "<html>"]

NoResp == [status |-> 0, body |-> HtmlBody]

\* Errors are (name, message) pairs, as JavaScript Error objects.
NoError == [name |-> "", message |-> ""]
Error(msg) == [name |-> "Error", message |-> msg]
AbortError == [name |-> "AbortError", message |-> "The user aborted a request."]
TypeError == [name |-> "TypeError", message |-> "Failed to fetch"]
TimeoutMessage == "La peticion tardo demasiado tiempo"
NoTokenMessage == "No se recibio token"
SyntaxError == [name |-> "SyntaxError", message |-> "Unexpected token <"]
RegisterFailedMessage == "Error al registrarse"

LoginPage == "/pages/login.html"
RegisterRedirect == "login.html"

\* The profile that handleLogin caches under the user key, auth.js:66-68.
UserProfile == 1

(***************************************************************************)
(* State.                                                                  *)
(***************************************************************************)
VARIABLES
    localStorage,   \* [access_token, refresh_token, user]: the session store
    location,       \* window.location.href
    issued,         \* server: number of tokens issued so far
    calls,          \* logical calls begun so far
    stack,          \* stack[p]: the request frames of the call in slot p
    kind,           \* kind[p]: "none", "request", "login", "register" or "handleRegister"
    log,            \* log[p]: what the running call has done on the network
    lastReq,        \* the request invocation that settled in the last step, if any
    done,           \* the logical call that completed in the last step, if any
    state,          \* catalog page: [events, currentPage, totalPages, filters, selectedEvent]
    listening,      \* catalog page: setupEventListeners has run
    searchInput,    \* catalog page: the value of the search box
    debounceTimer,  \* catalog page: the variable of that name (0 while undefined)
    timers,         \* catalog page: the pending timeouts of the search box
    typed,          \* catalog page: input events of the search box so far
    loads,          \* catalog page: the loadEvents calls begun so far
    modal,          \* catalog page: style.display of the event modal
    opens,          \* catalog page: the openEventModal calls in flight
    purchases,      \* catalog page: the purchaseTicket calls in flight
    begun,          \* catalog page: openEventModal and purchaseTicket calls begun so far
    dashboard       \* dashboard page: [phase, loaders, counters, userName, listeners]

modalVars == <<modal, opens, purchases, begun>>

catalogVars == <<state, listening, searchInput, debounceTimer, timers, typed, loads,
                 modal, opens, purchases, begun>>

vars == <<localStorage, location, issued, calls, stack, kind, log, lastReq, done,
          state, listening, searchInput, debounceTimer, timers, typed, loads,
          modal, opens, purchases, begun, dashboard>>

(***************************************************************************)
(* API_CONFIG.getHeaders, auth.js:307-320.                                 *)
(***************************************************************************)
Bearer(token) == <<"Bearer", token>>
NoHeader == <<>>

\* getHeaders without the includeAuth test
getHeadersAlways(includeAuth, store) ==
    [ContentType |-> "application/json",
     Authorization |-> IF Truthy(store.access_token)
                       THEN Bearer(store.access_token)
                       ELSE NoHeader]

getHeaders(includeAuth, store) ==
    [ContentType |-> "application/json",
     Authorization |-> IF includeAuth /\ Truthy(store.access_token)
                       THEN Bearer(store.access_token)
                       ELSE NoHeader]

(***************************************************************************)
(* APIClient.isAuthenticated, dashboard.js:370-372.                        *)
(***************************************************************************)
\* isAuthenticated that looks at the refresh token
isAuthenticatedByRefresh(store) == Truthy(store.refresh_token)

isAuthenticated(store) == Truthy(store.access_token)

(***************************************************************************)
(* The effect of APIClient.logout on the store, dashboard.js:364-368.      *)
(***************************************************************************)
\* logout that forgets the refresh token
removeAccessOnly(store) == [store EXCEPT !.access_token = Null]

removeTokens(store) == [store EXCEPT !.access_token = Null, !.refresh_token = Null]

\* localStorage.setItem(key, value): the value is converted to a string.
setItem(store, key, value) ==
    [store EXCEPT ![key] = IF value = Null THEN Undefined ELSE value]

(***************************************************************************)
(* request, dashboard.js:237-256: build the config, arm the timer, call    *)
(* fetch.  The frame is the activation record of one request invocation.   *)
(***************************************************************************)
NewRequest(endpoint, auth, retry, store) ==
    [endpoint |-> endpoint,
     auth |-> auth,                 \* options.auth !== false
     retry |-> retry,               \* options.retry !== false
     headers |-> getHeaders(auth, store),
     tokenAtDispatch |-> store.access_token,
     pc |-> "fetch",                \* "fetch", "refresh" or "json"
     net |-> "sent",                \* "sent", "answered", "arrived", "aborted", "failed"
     timer |-> "armed",             \* "armed", "cleared", "fired"
     resp |-> NoResp,
     refreshed |-> "none"]          \* "none" or "false" (result of refreshToken)

\* The fetch of handleRegister, auth.js:121-127: no Authorization header,
\* no timer, no retry.
RawFetch(endpoint, store) ==
    [endpoint |-> endpoint,
     auth |-> FALSE,
     retry |-> FALSE,
     headers |-> [ContentType |-> "application/json", Authorization |-> NoHeader],
     tokenAtDispatch |-> store.access_token,
     pc |-> "fetch",
     net |-> "sent",
     timer |-> "cleared",
     resp |-> NoResp,
     refreshed |-> "none"]

\* response.ok
ResponseOk(status) == status >= 200 /\ status <= 299

\* a parse that hands on the text it could not parse
ParseJsonRaw(body) ==
    [access |-> body.access, refresh |-> body.refresh, detail |-> body.detail,
     error |-> body.error, payload |-> body.payload]

\* response.json().catch(() => ({})), dashboard.js:266
ParseJson(body) ==
    IF body.json
    THEN [access |-> body.access, refresh |-> body.refresh, detail |-> body.detail,
          error |-> body.error, payload |-> body.payload]
    ELSE EmptyObj

StatusText(status) ==
    CASE status = 401 -> "Error 401"
      [] status = 500 -> "Error 500"
      [] OTHER -> "Error"

\* the message with error taken before detail
ErrorMessageErrorFirst(data, status) ==
    IF data.error # "" THEN data.error
    ELSE IF data.detail # "" THEN data.detail
    ELSE StatusText(status)

\* data.detail || data.error || `Error ${response.status}`, dashboard.js:269
ErrorMessage(data, status) ==
    IF data.detail # "" THEN data.detail
    ELSE IF data.error # "" THEN data.error
    ELSE StatusText(status)

\* a catch block that rethrows whatever it caught
CatchRethrowRaw(err) == err

\* catch block of request, dashboard.js:273-279
CatchRethrow(err) ==
    IF err.name = "AbortError" THEN Error(TimeoutMessage) ELSE err

Resolved(data) == [ok |-> TRUE, data |-> data, error |-> NoError]
Rejected(err) == [ok |-> FALSE, data |-> EmptyObj, error |-> err]

(***************************************************************************)
(* Initial state: a freshly loaded page.  The store outlives page loads,   *)
(* so the page starts either anonymous or with the tokens of an earlier    *)
(* login, together with the profile handleLogin caches when the login      *)
(* answer carries one (auth.js:62-68).                                     *)
(***************************************************************************)
EmptyStore == [access_token |-> Null, refresh_token |-> Null, user |-> Null]

NoCall == [options |-> [auth |-> FALSE, retry |-> FALSE], orig |-> 0, refresh |-> 0, hist |-> <<>>,
           before |-> EmptyStore]
NoReq == [endpoint |-> "none", auth |-> FALSE, retry |-> FALSE, headers |-> getHeaders(FALSE, EmptyStore),
          tokenAtDispatch |-> Null, timer |-> "cleared", net |-> "arrived",
          resp |-> NoResp, result |-> Rejected(NoError)]
NoDone == [kind |-> "none", settle |-> "none", success |-> FALSE, data |-> EmptyObj,
           error |-> "", log |-> NoCall, req |-> NoReq]

(***************************************************************************)
(* The catalog page, part_000: its state object, the query loadEvents      *)
(* builds from it, and the answers of the events endpoint.                 *)
(***************************************************************************)
PageSize == 12

Queries == {"a", "b"}                   \* texts typed into the search box
Statuses == {"", "published"}           \* options of the status filter
Orderings == {"-start_date", "price"}   \* options of the sort filter
Categories == {1}                       \* ids of the category buttons
Counts == {0, 12, 25}                   \* response.count of an answer

NoCategory == 0                         \* filters.category = ''
NoEvent == 0                            \* selectedEvent = null
EventIds == {1}                         \* ids of the event cards
Absent == "(absent)"                    \* a key deleted from params
AbsentId == 0 - 1

\* Math.ceil(a / b)
Ceil(a, b) == (a + b - 1) \div b

MaxPage == Ceil(25, PageSize)
PageArgs == 0..(MaxPage + 1)            \* arguments of changePage

\* part_000:6-18
InitialState ==
    [events |-> <<>>,
     currentPage |-> 1,
     totalPages |-> 1,
     filters |-> [search |-> "", category |-> NoCategory, status |-> "",
                  ordering |-> "-start_date"],
     selectedEvent |-> NoEvent]

\* value || undefined, the key being deleted when undefined, part_000:84-95
Param(v) == IF v = "" THEN Absent ELSE v
IdParam(c) == IF c = NoCategory THEN AbsentId ELSE c

BuildParams(st) ==
    [page |-> st.currentPage,
     search |-> Param(st.filters.search),
     category |-> IdParam(st.filters.category),
     status |-> Param(st.filters.status),
     ordering |-> st.filters.ordering]

\* The answer of the events endpoint to params: count events in all, the
\* page of results being the events that match params.  An answer without
\* the two fields reads as count 0.
EventsResponse(params, count) ==
    [count |-> count, results |-> IF count = 0 THEN <<>> ELSE <<params>>]

NoResponse == [count |-> 0, results |-> <<>>]

\* A loadEvents call: the params it sent, where it stands ("sent", "done",
\* "failed"), and the answer it got.  Gone stands for a call that has
\* settled and is no longer the latest.
NewLoad(st) == [params |-> BuildParams(st), status |-> "sent", resp |-> NoResponse]
Gone == [params |-> BuildParams(InitialState), status |-> "gone", resp |-> NoResponse]

\* The page at the await of its first loadEvents, part_000:24-32: the
\* listeners of setupEventListeners are not installed yet.
CatalogInit ==
    /\ state = InitialState
    /\ listening = FALSE
    /\ searchInput = ""
    /\ debounceTimer = 0
    /\ timers = {}
    /\ typed = 0
    /\ loads = <<NewLoad(InitialState)>>
    /\ modal = "none"
    /\ opens = <<>>
    /\ purchases = 0
    /\ begun = [opens |-> 0, purchases |-> 0]

(***************************************************************************)
(* The dashboard page, dashboard.js:5-94.                                  *)
(***************************************************************************)
GuardRedirect == "login.html"

Loaders == {"events", "tickets", "stats"}
Counter0 == "0"                         \* the text a failed loader shows

\* The page before DOMContentLoaded: no loader has run, the counters show
\* what the markup holds, no listener is installed.
DashboardUnloaded ==
    [phase |-> "unloaded",              \* "unloaded", "redirected" or "started"
     loaders |-> [l \in Loaders |-> "idle"],   \* "idle", "pending", "done", "failed"
     counters |-> [l \in Loaders |-> ""],
     userName |-> "",
     listeners |-> FALSE]

DashboardInit == dashboard = DashboardUnloaded

Init ==
    /\ CatalogInit
    /\ DashboardInit
    /\ \E n \in {0, 1}, u \in {Null, UserProfile} :
          /\ issued = n
          /\ localStorage = IF n = 0
                            THEN EmptyStore
                            ELSE [access_token |-> 1, refresh_token |-> RefreshOf(1), user |-> u]
    /\ location = "page"
    /\ calls = 0
    /\ stack = [p \in Procs |-> <<>>]
    /\ kind = [p \in Procs |-> "none"]
    /\ log = [p \in Procs |-> NoCall]
    /\ lastReq = NoReq
    /\ done = NoDone

(***************************************************************************)
(* The server.  It answers any status; the body goes with the endpoint.    *)
(***************************************************************************)
OkBodies(endpoint, n) ==
    CASE endpoint = "login" ->
            {TokensBody(n + 1, RefreshOf(n + 1)), TokensBody(n + 1, Null), HtmlBody}
      [] endpoint = "refresh" ->
            {TokensBody(n + 1, Null), HtmlBody}
      [] endpoint = "register" ->
            {TokensBody(n + 1, RefreshOf(n + 1)), PayloadBody, HtmlBody}
      [] OTHER ->
            {PayloadBody, HtmlBody}

Responses(endpoint, n) ==
    [status : {200}, body : OkBodies(endpoint, n)]
      \cup [status : {401}, body : {DetailErrorBody, ErrorBody, HtmlBody}]
      \cup [status : {500}, body : {HtmlBody}]

(***************************************************************************)
(* Bookkeeping of a logical call.                                          *)
(***************************************************************************)
Top(p) == stack[p][Len(stack[p])]
Below(p) == SubSeq(stack[p], 1, Len(stack[p]) - 1)

CountDispatch(l, endpoint) ==
    IF endpoint = "refresh" THEN [l EXCEPT !.refresh = @ + 1]
                            ELSE [l EXCEPT !.orig = @ + 1]

\* What the network delivered to the call: the endpoint, the status (0 for a
\* network error, -1 for a timeout), whether the body carries an access
\* token, and whether a refresh token was stored at that moment.
Heard(l, endpoint, status, body, store) ==
    [l EXCEPT !.hist = Append(@, [endpoint |-> endpoint, status |-> status,
                                  access |-> body.json /\ Truthy(body.access),
                                  stored |-> Truthy(store.refresh_token)])]

Snapshot(f, res) ==
    [endpoint |-> f.endpoint, auth |-> f.auth, retry |-> f.retry, headers |-> f.headers,
     tokenAtDispatch |-> f.tokenAtDispatch, timer |-> f.timer, net |-> f.net,
     resp |-> f.resp, result |-> res]

(***************************************************************************)
(* login, dashboard.js:316-333: what it does with the settled post.        *)
(***************************************************************************)
loginStores(res) == res.ok /\ Truthy(res.data.access)

\* login that writes the two tokens under each other's key
loginStoreSwapped(store, res) ==
    IF loginStores(res)
    THEN setItem(setItem(store, "refresh_token", res.data.access),
                 "access_token", res.data.refresh)
    ELSE store

loginStore(store, res) ==
    IF loginStores(res)
    THEN setItem(setItem(store, "access_token", res.data.access),
                 "refresh_token", res.data.refresh)
    ELSE store

loginError(res) ==
    IF loginStores(res) THEN ""
    ELSE IF res.ok THEN NoTokenMessage
    ELSE res.error.message

(***************************************************************************)
(* register, dashboard.js:335-342, and handleRegister, auth.js:118-150:    *)
(* what they do with the settled registration.                             *)
(***************************************************************************)
\* register that stores the tokens of the answer as login does
registerStoreTokens(store, res) == loginStore(store, res)

registerStore(store, res) == store

\* handleRegister reads the body with response.json(), which throws on a
\* body that is not JSON; errorData.error?.message is undefined for the
\* error answers of this server.  auth.js:129-134
handleRegisterResult(resp) ==
    IF ~resp.body.json THEN Rejected(SyntaxError)
    ELSE IF ~ResponseOk(resp.status) THEN Rejected(Error(RegisterFailedMessage))
    ELSE Resolved(ParseJson(resp.body))

\* The redirect of auth.js:140-142; the 2 s timer is taken to fire at once.
handleRegisterLocation(res, loc) == IF res.ok THEN RegisterRedirect ELSE loc

(***************************************************************************)
(* The bottom request of a logical call settles: the call completes.       *)
(***************************************************************************)
Complete(p, f, res, l) ==
    LET store == CASE kind[p] = "login" -> loginStore(localStorage, res)
                   [] kind[p] = "register" -> registerStore(localStorage, res)
                   [] OTHER -> localStorage
    IN  /\ localStorage' = store
        /\ location' = IF kind[p] = "handleRegister"
                       THEN handleRegisterLocation(res, location)
                       ELSE location
        /\ stack' = [stack EXCEPT ![p] = <<>>]
        /\ kind' = [kind EXCEPT ![p] = "none"]
        /\ log' = [log EXCEPT ![p] = NoCall]
        /\ done' = [kind |-> kind[p],
                    settle |-> IF kind[p] # "request" \/ res.ok THEN "resolved" ELSE "rejected",
                    success |-> IF kind[p] = "login" THEN loginStores(res) ELSE res.ok,
                    data |-> res.data,
                    error |-> IF kind[p] = "login" THEN loginError(res) ELSE res.error.message,
                    log |-> l,
                    req |-> Snapshot(f, res)]

(***************************************************************************)
(* refreshToken, dashboard.js:349-361, resumed when its post settles, and  *)
(* then request, dashboard.js:261-266, resumed with refreshToken's result. *)
(***************************************************************************)
\* refreshToken that looks for the token under a field the answer lacks
refreshStoresRefresh(res) == res.ok /\ Truthy(res.data.refresh)

refreshStores(res) == res.ok /\ Truthy(res.data.access)

\* refreshToken that also writes the refresh field of the answer
refreshStoreBoth(store, res) ==
    setItem(setItem(store, "access_token", res.data.access),
            "refresh_token", res.data.refresh)

\* refreshToken that keeps the stored access token when it is the newer one
refreshStoreNewest(store, res) ==
    IF store.access_token > res.data.access THEN store
    ELSE setItem(store, "access_token", res.data.access)

\* localStorage.setItem('access_token', data.access), dashboard.js:354
refreshStore(store, res) == setItem(store, "access_token", res.data.access)

\* a re-issue that keeps the caller's retry flag
ReissueOptionsKeepRetry(parent) == [auth |-> parent.auth, retry |-> parent.retry]

\* { ...options, retry: false }, dashboard.js:262
ReissueOptions(parent) == [auth |-> parent.auth, retry |-> FALSE]

ResumeRefreshToken(p, res, l) ==
    LET n == Len(stack[p])
        parent == stack[p][n - 1]
        below == SubSeq(stack[p], 1, n - 2)
        waiting == [parent EXCEPT !.pc = "json", !.refreshed = "false"]
        again == ReissueOptions(parent)
    IN  /\ IF refreshStores(res)
           THEN LET store == refreshStore(localStorage, res)
                IN  /\ localStorage' = store
                    /\ location' = location
                    /\ stack' = [stack EXCEPT ![p] =
                          Append(below, NewRequest(parent.endpoint, again.auth, again.retry, store))]
                    /\ log' = [log EXCEPT ![p] = CountDispatch(l, parent.endpoint)]
           ELSE IF res.ok
           THEN /\ UNCHANGED <<localStorage, location>>
                /\ stack' = [stack EXCEPT ![p] = Append(below, waiting)]
                /\ log' = [log EXCEPT ![p] = l]
           ELSE /\ localStorage' = removeTokens(localStorage)
                /\ location' = LoginPage
                /\ stack' = [stack EXCEPT ![p] = Append(below, waiting)]
                /\ log' = [log EXCEPT ![p] = l]
        /\ kind' = kind
        /\ done' = NoDone

\* The top request of slot p, in its final state f, settles with res.
Settle(p, f, res, l) ==
    /\ lastReq' = IF kind[p] = "handleRegister" THEN NoReq ELSE Snapshot(f, res)
    /\ IF Len(stack[p]) = 1 THEN Complete(p, f, res, l)
                            ELSE ResumeRefreshToken(p, res, l)

\* A step in which no request settles and no call completes.
Unobserved == lastReq' = NoReq /\ done' = NoDone

(***************************************************************************)
(* Operations begun by the page.                                           *)
(***************************************************************************)
Begin(p, k, endpoint, auth, retry) ==
    /\ stack[p] = <<>>
    /\ calls < MaxCalls
    /\ calls' = calls + 1
    /\ stack' = [stack EXCEPT ![p] =
          <<IF k = "handleRegister" THEN RawFetch(endpoint, localStorage)
                                    ELSE NewRequest(endpoint, auth, retry, localStorage)>>]
    /\ kind' = [kind EXCEPT ![p] = k]
    /\ log' = [log EXCEPT ![p] = [NoCall EXCEPT !.options = [auth |-> auth, retry |-> retry],
                                                !.orig = 1,
                                                !.before = localStorage]]
    /\ UNCHANGED <<localStorage, location, issued>>
    /\ UNCHANGED <<catalogVars, dashboard>>
    /\ Unobserved

\* api.request(endpoint, {auth, retry})
Request(p) ==
    \E auth \in BOOLEAN, retry \in BOOLEAN : Begin(p, "request", "api", auth, retry)

\* api.get(endpoint): request with the default options, dashboard.js:284-286
Get(p) == Begin(p, "request", "api", TRUE, TRUE)

\* api.login(username, password): post(LOGIN) with the default options
Login(p) == Begin(p, "login", "login", TRUE, TRUE)

\* api.register(userData): post(REGISTER) with the default options
Register(p) == Begin(p, "register", "register", TRUE, TRUE)

\* handleRegister(e) with a valid form: a plain fetch of the register endpoint
HandleRegister(p) == Begin(p, "handleRegister", "register", FALSE, FALSE)

\* api.logout().  log[q].before follows the store as it would be without
\* the call running in slot q.
Logout ==
    /\ localStorage' = removeTokens(localStorage)
    /\ location' = LoginPage
    /\ log' = [q \in Procs |->
                 IF stack[q] = <<>> THEN log[q]
                 ELSE [log[q] EXCEPT !.before = removeTokens(@)]]
    /\ UNCHANGED <<issued, calls, stack, kind>>
    /\ UNCHANGED <<catalogVars, dashboard>>
    /\ Unobserved

(***************************************************************************)
(* The network and the event loop.                                         *)
(***************************************************************************)
\* The server answers the request in flight.
ServerAnswer(p) ==
    /\ stack[p] # <<>>
    /\ Top(p).pc = "fetch" /\ Top(p).net = "sent"
    /\ \E r \in Responses(Top(p).endpoint, issued) :
          /\ (r.status = 401 /\ Top(p).retry) => Len(stack[p]) < MaxDepth
          /\ issued' = IF Truthy(r.body.access) THEN issued + 1 ELSE issued
          /\ issued' <= MaxTokens
          /\ stack' = [stack EXCEPT ![p] =
                Append(Below(p), [Top(p) EXCEPT !.net = "answered", !.resp = r])]
    /\ UNCHANGED <<localStorage, location, calls, kind, log>>
    /\ UNCHANGED <<catalogVars, dashboard>>
    /\ Unobserved

\* fetch resolves: dashboard.js:256-264 and refreshToken up to its post.
Receive(p) ==
    /\ stack[p] # <<>>
    /\ Top(p).pc = "fetch" /\ Top(p).net = "answered"
    /\ LET f == [Top(p) EXCEPT !.net = "arrived", !.timer = "cleared"]
           l == Heard(log[p], f.endpoint, f.resp.status, f.resp.body, localStorage)
       IN  IF f.resp.status = 401 /\ f.retry
           THEN IF Truthy(localStorage.refresh_token)
                THEN /\ stack' = [stack EXCEPT ![p] =
                            Append(Append(Below(p), [f EXCEPT !.pc = "refresh"]),
                                   NewRequest("refresh", TRUE, TRUE, localStorage))]
                     /\ log' = [log EXCEPT ![p] = CountDispatch(l, "refresh")]
                ELSE /\ stack' = [stack EXCEPT ![p] =
                            Append(Below(p), [f EXCEPT !.pc = "json", !.refreshed = "false"])]
                     /\ log' = [log EXCEPT ![p] = l]
           ELSE /\ stack' = [stack EXCEPT ![p] = Append(Below(p), [f EXCEPT !.pc = "json"])]
                /\ log' = [log EXCEPT ![p] = l]
    /\ UNCHANGED <<localStorage, location, issued, calls, kind>>
    /\ UNCHANGED <<catalogVars, dashboard>>
    /\ Unobserved

\* The body has been read: dashboard.js:266-272.
Json(p) ==
    /\ stack[p] # <<>>
    /\ Top(p).pc = "json"
    /\ LET f == Top(p)
           data == ParseJson(f.resp.body)
           res == IF kind[p] = "handleRegister"
                  THEN handleRegisterResult(f.resp)
                  ELSE IF ~ResponseOk(f.resp.status)
                  THEN Rejected(CatchRethrow(Error(ErrorMessage(data, f.resp.status))))
                  ELSE Resolved(data)
       IN  Settle(p, f, res, log[p])
    /\ UNCHANGED <<issued, calls>>
    /\ UNCHANGED <<catalogVars, dashboard>>

\* The timer fires before fetch has resolved: controller.abort(), fetch
\* rejects with an AbortError, dashboard.js:249 and 273-279.
Timeout(p) ==
    /\ stack[p] # <<>>
    /\ Top(p).pc = "fetch" /\ Top(p).timer = "armed"
    /\ LET f == [Top(p) EXCEPT !.timer = "fired", !.net = "aborted"]
           l == Heard(log[p], f.endpoint, 0 - 1, HtmlBody, localStorage)
       IN  Settle(p, f, Rejected(CatchRethrow(AbortError)), l)
    /\ UNCHANGED <<issued, calls>>
    /\ UNCHANGED <<catalogVars, dashboard>>

\* fetch rejects with a network error, dashboard.js:251 and 273-279.
NetworkError(p) ==
    /\ stack[p] # <<>>
    /\ Top(p).pc = "fetch"
    /\ LET f == [Top(p) EXCEPT !.net = "failed"]
           l == Heard(log[p], f.endpoint, 0, HtmlBody, localStorage)
           err == IF kind[p] = "handleRegister" THEN TypeError ELSE CatchRethrow(TypeError)
       IN  Settle(p, f, Rejected(err), l)
    /\ UNCHANGED <<issued, calls>>
    /\ UNCHANGED <<catalogVars, dashboard>>

(***************************************************************************)
(* The catalog page, part_000.  api.getEvents is seen from the page: a     *)
(* call in flight that resolves with an answer or rejects.                 *)
(***************************************************************************)
apiVars == <<localStorage, location, issued, calls, stack, kind, log, lastReq, done>>

\* loadEvents up to its await, part_000:80-97: the params are built from
\* the state object as it is when the call begins.
LoadEvents(st) ==
    /\ Len(loads) < MaxLoads
    /\ loads' = Append([i \in 1..Len(loads) |->
                           IF loads[i].status = "sent" THEN loads[i] ELSE Gone],
                       NewLoad(st))

\* a clearTimeout that cancels nothing
clearTimeoutNothing(pending, id) == pending

\* clearTimeout(id)
clearTimeout(pending, id) == pending \ {id}

\* input event of the search box, part_000:446-452
SearchInput(v) ==
    /\ listening
    /\ typed < MaxInputs
    /\ searchInput' = v
    /\ typed' = typed + 1
    /\ debounceTimer' = typed + 1
    /\ timers' = clearTimeout(timers, debounceTimer) \cup {typed + 1}
    /\ UNCHANGED <<state, listening, loads>>
    /\ UNCHANGED <<apiVars, dashboard, modalVars>>

\* the callback of a pending timeout, part_000:448-450; e.target.value is
\* the value of the box when the callback runs
DebounceFire(t) ==
    /\ t \in timers
    /\ timers' = timers \ {t}
    /\ state' = [state EXCEPT !.filters.search = searchInput, !.currentPage = 1]
    /\ LoadEvents(state')
    /\ UNCHANGED <<listening, searchInput, debounceTimer, typed>>
    /\ UNCHANGED <<apiVars, dashboard, modalVars>>

\* change event of the status filter, part_000:458-462
StatusChange(v) ==
    /\ listening
    /\ state' = [state EXCEPT !.filters.status = v, !.currentPage = 1]
    /\ LoadEvents(state')
    /\ UNCHANGED <<listening, searchInput, debounceTimer, timers, typed>>
    /\ UNCHANGED <<apiVars, dashboard, modalVars>>

\* change event of the sort filter, part_000:468-472
SortChange(v) ==
    /\ listening
    /\ state' = [state EXCEPT !.filters.ordering = v, !.currentPage = 1]
    /\ LoadEvents(state')
    /\ UNCHANGED <<listening, searchInput, debounceTimer, timers, typed>>
    /\ UNCHANGED <<apiVars, dashboard, modalVars>>

\* filterByCategory(categoryId), part_000:486-494
filterByCategory(categoryId) ==
    /\ state' = [state EXCEPT
                    !.filters.category = IF @ = categoryId THEN NoCategory ELSE categoryId,
                    !.currentPage = 1]
    /\ LoadEvents(state')
    /\ UNCHANGED <<listening, searchInput, debounceTimer, timers, typed>>
    /\ UNCHANGED <<apiVars, dashboard, modalVars>>

\* changePage(page), part_000:496-501
changePage(page) ==
    /\ IF page < 1 \/ page > state.totalPages
       THEN UNCHANGED <<state, loads>>
       ELSE /\ state' = [state EXCEPT !.currentPage = page]
            /\ LoadEvents(state')
    /\ UNCHANGED <<listening, searchInput, debounceTimer, timers, typed>>
    /\ UNCHANGED <<apiVars, dashboard, modalVars>>

\* The call settles: the latest call keeps its outcome, an older one is
\* forgotten.  When the first call settles, DOMContentLoaded goes on to
\* setupEventListeners, part_000:32-35.
SettleLoad(i, status, resp) ==
    /\ loads' = [loads EXCEPT ![i] = IF i = Len(loads)
                                     THEN [@ EXCEPT !.status = status, !.resp = resp]
                                     ELSE Gone]
    /\ listening' = (listening \/ i = 1)

\* api.getEvents resolves, part_000:97-103.  The endpoint answers a page
\* that exists: a page beyond the last one of the result set is an error.
LoadResolve(i) ==
    /\ i \in 1..Len(loads)
    /\ loads[i].status = "sent"
    /\ \E count \in Counts :
          LET response == EventsResponse(loads[i].params, count)
          IN  /\ loads[i].params.page = 1 \/ loads[i].params.page <= Ceil(count, PageSize)
              /\ state' = [state EXCEPT !.events = response.results,
                                        !.totalPages = Ceil(response.count, PageSize)]
              /\ SettleLoad(i, "done", response)
    /\ UNCHANGED <<searchInput, debounceTimer, timers, typed>>
    /\ UNCHANGED <<apiVars, dashboard, modalVars>>

\* api.getEvents rejects, part_000:105-109
LoadReject(i) ==
    /\ i \in 1..Len(loads)
    /\ loads[i].status = "sent"
    /\ state' = [state EXCEPT !.events = <<>>]
    /\ SettleLoad(i, "failed", NoResponse)
    /\ UNCHANGED <<searchInput, debounceTimer, timers, typed>>
    /\ UNCHANGED <<apiVars, dashboard, modalVars>>

(***************************************************************************)
(* The event modal and the purchase, part_000:271-293 and 394-434.         *)
(***************************************************************************)
LoginRedirect == "/pages/login.html?redirect"

pageVars == <<listening, searchInput, debounceTimer, timers, typed>>

\* The sequence without its i-th element.
Without(seq, i) == SubSeq(seq, 1, i - 1) \o SubSeq(seq, i + 1, Len(seq))

\* the effect of closeEventModal on the state object, part_000:398
closeSelection(st) == [st EXCEPT !.selectedEvent = NoEvent]

\* openEventModal(eventId) up to its first await, part_000:271-275; the
\* call comes from the card of an event that is shown.
openEventModal(eventId) ==
    /\ state.events # <<>>
    /\ begun.opens < MaxOpens
    /\ begun' = [begun EXCEPT !.opens = @ + 1]
    /\ opens' = Append(opens, [eventId |-> eventId, pc |-> "getEvent"])
    /\ UNCHANGED <<state, loads, modal, purchases>>
    /\ UNCHANGED <<apiVars, dashboard, pageVars>>

\* The awaited call of openEventModal resolves: after getEvent the event is
\* selected and getTicketTypes is awaited, part_000:275-279; after
\* getTicketTypes the modal is rendered and shown, part_000:281-285.
OpenResume(i) ==
    /\ i \in 1..Len(opens)
    /\ IF opens[i].pc = "getEvent"
       THEN /\ state' = [state EXCEPT !.selectedEvent = opens[i].eventId]
            /\ opens' = [opens EXCEPT ![i].pc = "getTicketTypes"]
            /\ modal' = modal
       ELSE /\ modal' = "flex"
            /\ opens' = Without(opens, i)
            /\ state' = state
    /\ UNCHANGED <<loads, purchases, begun>>
    /\ UNCHANGED <<apiVars, dashboard, pageVars>>

\* The awaited call of openEventModal rejects: the catch, part_000:287-290
OpenFail(i) ==
    /\ i \in 1..Len(opens)
    /\ opens' = Without(opens, i)
    /\ UNCHANGED <<state, loads, modal, purchases, begun>>
    /\ UNCHANGED <<apiVars, dashboard, pageVars>>

\* closeEventModal(), part_000:394-399, from the close button of the modal
\* or a click outside it
closeEventModal ==
    /\ modal = "flex"
    /\ modal' = "none"
    /\ state' = closeSelection(state)
    /\ UNCHANGED <<loads, opens, purchases, begun>>
    /\ UNCHANGED <<apiVars, dashboard, pageVars>>

\* purchaseTicket(eventId, ticketTypeId) up to its await, part_000:405-416,
\* from a button of the modal
purchaseTicket ==
    /\ modal = "flex"
    /\ begun.purchases < MaxPurchases
    /\ begun' = [begun EXCEPT !.purchases = @ + 1]
    /\ IF ~isAuthenticated(localStorage)
       THEN /\ location' = LoginRedirect
            /\ purchases' = purchases
       ELSE /\ location' = location
            /\ purchases' = purchases + 1
    /\ UNCHANGED <<state, loads, modal, opens>>
    /\ UNCHANGED <<localStorage, issued, calls, stack, kind, log, dashboard, pageVars>>
    /\ Unobserved

\* api.purchaseTicket resolves: the modal is closed and the events are
\* loaded again, part_000:418-426
PurchaseResolve ==
    /\ purchases > 0
    /\ purchases' = purchases - 1
    /\ modal' = "none"
    /\ state' = closeSelection(state)
    /\ LoadEvents(state')
    /\ UNCHANGED <<opens, begun>>
    /\ UNCHANGED <<apiVars, dashboard, pageVars>>

\* api.purchaseTicket rejects: the catch, part_000:428-430
PurchaseReject ==
    /\ purchases > 0
    /\ purchases' = purchases - 1
    /\ UNCHANGED <<state, loads, modal, opens, begun>>
    /\ UNCHANGED <<apiVars, dashboard, pageVars>>

(***************************************************************************)
(* The dashboard page, dashboard.js:5-94.  The service calls of the two    *)
(* remote loaders are seen from the page: calls in flight that resolve     *)
(* with an answer or reject.                                               *)
(***************************************************************************)
\* Answers of the services: a paginated object {count, results} or a plain
\* array; a field the shape lacks reads as 0 (undefined).
ListAnswers ==
    [paged : {TRUE}, count : {0, 2}, length : {0}]
      \cup [paged : {FALSE}, count : {0}, length : {0, 1, 2}]

\* textContent = n
Text(n) == CASE n = 0 -> "0" [] n = 1 -> "1" [] n = 2 -> "2" [] OTHER -> "n"

\* events.count || events.length || 0, dashboard.js:59
eventsCount(events) ==
    IF events.count # 0 THEN events.count
    ELSE IF events.length # 0 THEN events.length
    ELSE 0

\* tickets.length || 0, dashboard.js:73
ticketsCount(tickets) == IF tickets.length # 0 THEN tickets.length ELSE 0

\* renderMyTickets(tickets) calls tickets.slice, which an object that is
\* not an array does not have.
RenderThrows(l, answer) == l = "tickets" /\ answer.paged

\* The page-level isAuthenticated() of dashboard.js:7; the helper is defined
\* outside the files at hand and is taken to test the stored access token,
\* as the client's method of the same name does.
pageIsAuthenticated(store) == Truthy(store.access_token)

\* loadUserInfo, dashboard.js:25-37
loadUserInfo(store) == IF store.user # Null THEN "user" ELSE ""

\* a join that is over when the first loader has settled
AnySettled(ls) == \E l \in Loaders : ls[l] \in {"done", "failed"}

\* Promise.all over the three loaders, none of which rejects
AllSettled(ls) == \A l \in Loaders : ls[l] \in {"done", "failed"}

\* DOMContentLoaded, dashboard.js:5-13, and initDashboard up to its await,
\* dashboard.js:19-45 and 85-93: loadStats has no await and completes at once.
DOMContentLoaded ==
    /\ dashboard.phase = "unloaded"
    /\ IF ~pageIsAuthenticated(localStorage)
       THEN /\ location' = GuardRedirect
            /\ dashboard' = [dashboard EXCEPT !.phase = "redirected"]
       ELSE /\ location' = location
            /\ dashboard' = [dashboard EXCEPT
                  !.phase = "started",
                  !.userName = loadUserInfo(localStorage),
                  !.loaders = [l \in Loaders |-> IF l = "stats" THEN "done" ELSE "pending"],
                  !.counters = [@ EXCEPT !["stats"] = Counter0]]
    /\ UNCHANGED <<localStorage, issued, calls, stack, kind, log>>
    /\ UNCHANGED catalogVars
    /\ Unobserved

\* The loader has settled; when it was the last one, loadDashboardData
\* returns and initDashboard goes on to initEventListeners,
\* dashboard.js:21-22.
SettleLoader(l, status, text) ==
    LET ls == [dashboard.loaders EXCEPT ![l] = status]
    IN  dashboard' = [dashboard EXCEPT
            !.loaders = ls,
            !.counters = [@ EXCEPT ![l] = text],
            !.listeners = AllSettled(ls)]

\* loadMyEvents / loadMyTickets resumed with the answer, dashboard.js:56-63
\* and 72-78; an exception of the renderer is caught by the loader.
LoaderResolve(l) ==
    /\ l \in {"events", "tickets"}
    /\ dashboard.loaders[l] = "pending"
    /\ \E answer \in ListAnswers :
          IF RenderThrows(l, answer)
          THEN SettleLoader(l, "failed", Counter0)
          ELSE SettleLoader(l, "done",
                            Text(IF l = "events" THEN eventsCount(answer)
                                                 ELSE ticketsCount(answer)))
    /\ UNCHANGED apiVars
    /\ UNCHANGED catalogVars

\* the service call rejects: the catch of the loader, dashboard.js:64-67
\* and 79-82
LoaderReject(l) ==
    /\ l \in {"events", "tickets"}
    /\ dashboard.loaders[l] = "pending"
    /\ SettleLoader(l, "failed", Counter0)
    /\ UNCHANGED apiVars
    /\ UNCHANGED catalogVars

\* The user opens the dashboard page again: a new document.
OpenDashboard ==
    /\ dashboard.phase # "unloaded"
    /\ dashboard' = DashboardUnloaded
    /\ location' = "page"
    /\ UNCHANGED <<localStorage, issued, calls, stack, kind, log>>
    /\ UNCHANGED catalogVars
    /\ Unobserved

(***************************************************************************)
(* Specifications.  Spec runs the logical calls one at a time: a call      *)
(* begins when no other call is running, while the user may log out and    *)
(* the network may answer, fail or time out at any moment.  SpecOverlap    *)
(* lets the calls of the slots overlap.                                    *)
(***************************************************************************)
Quiet == \A q \in Procs : stack[q] = <<>>

RequestAlone(p) == Quiet /\ Request(p)
LoginAlone(p) == Quiet /\ Login(p)
RegisterAlone(p) == Quiet /\ Register(p)
HandleRegisterAlone(p) == Quiet /\ HandleRegister(p)

Next ==
    \/ \E p \in Procs : RequestAlone(p)
    \/ \E p \in Procs : LoginAlone(p)
    \/ \E p \in Procs : RegisterAlone(p)
    \/ \E p \in Procs : HandleRegisterAlone(p)
    \/ Logout
    \/ \E p \in Procs : ServerAnswer(p)
    \/ \E p \in Procs : Receive(p)
    \/ \E p \in Procs : Json(p)
    \/ \E p \in Procs : Timeout(p)
    \/ \E p \in Procs : NetworkError(p)

Spec == Init /\ [][Next]_vars

NextOverlap ==
    \/ \E p \in Procs : Request(p)
    \/ \E p \in Procs : Login(p)
    \/ \E p \in Procs : Register(p)
    \/ \E p \in Procs : HandleRegister(p)
    \/ Logout
    \/ \E p \in Procs : ServerAnswer(p)
    \/ \E p \in Procs : Receive(p)
    \/ \E p \in Procs : Json(p)
    \/ \E p \in Procs : Timeout(p)
    \/ \E p \in Procs : NetworkError(p)

SpecOverlap == Init /\ [][NextOverlap]_vars

\* SpecRace: the page of a logged-in user issues requests with the default
\* options while others are in flight (the Promise.all of
\* loadDashboardData, dashboard.js:39-50, behind the guard of line 7), on a
\* network that delivers every answer.
InitRace == Init /\ isAuthenticated(localStorage) /\ localStorage.user = UserProfile

NextRace ==
    \/ \E p \in Procs : Get(p)
    \/ \E p \in Procs : ServerAnswer(p)
    \/ \E p \in Procs : Receive(p)
    \/ \E p \in Procs : Json(p)

SpecRace == InitRace /\ [][NextRace]_vars

\* SpecCatalog: the catalog page, its user and the events endpoint.
NextCatalog ==
    \/ \E v \in Queries \cup {""} : SearchInput(v)
    \/ \E t \in timers : DebounceFire(t)
    \/ \E v \in Statuses : StatusChange(v)
    \/ \E v \in Orderings : SortChange(v)
    \/ \E c \in Categories : filterByCategory(c)
    \/ \E page \in PageArgs : changePage(page)
    \/ \E i \in 1..MaxLoads : LoadResolve(i)
    \/ \E i \in 1..MaxLoads : LoadReject(i)

SpecCatalog == Init /\ [][NextCatalog]_vars

\* SpecShop: the catalog page with its event modal and the purchase.
NextShop ==
    \/ \E v \in Queries \cup {""} : SearchInput(v)
    \/ \E t \in timers : DebounceFire(t)
    \/ \E v \in Statuses : StatusChange(v)
    \/ \E v \in Orderings : SortChange(v)
    \/ \E c \in Categories : filterByCategory(c)
    \/ \E page \in PageArgs : changePage(page)
    \/ \E i \in 1..MaxLoads : LoadResolve(i)
    \/ \E i \in 1..MaxLoads : LoadReject(i)
    \/ \E e \in EventIds : openEventModal(e)
    \/ \E i \in 1..MaxOpens : OpenResume(i)
    \/ \E i \in 1..MaxOpens : OpenFail(i)
    \/ closeEventModal
    \/ purchaseTicket
    \/ PurchaseResolve
    \/ PurchaseReject

SpecShop == Init /\ [][NextShop]_vars

\* SpecDashboard: the dashboard page, its services, and a user who may log
\* out and open the page again.
NextDashboard ==
    \/ DOMContentLoaded
    \/ \E l \in Loaders : LoaderResolve(l)
    \/ \E l \in Loaders : LoaderReject(l)
    \/ OpenDashboard
    \/ Logout

SpecDashboard == Init /\ [][NextDashboard]_vars

(***************************************************************************)
(* Properties.  done and lastReq show the call that completed and the      *)
(* request that settled in the step just taken, so a state predicate over  *)
(* them speaks about the state right after every completion.               *)
(***************************************************************************)
Completed == done.kind # "none"
Hist == done.log.hist

AllFrames == UNION {{stack[p][i] : i \in 1..Len(stack[p])} : p \in Procs}

\* The mock server of the retry scenario: 401 to the first attempt, 200 to
\* the later ones, and a new access token from the refresh endpoint.
MockOnce(h) ==
    /\ Len(h) >= 1
    /\ h[1].stored
    /\ \A i \in 1..Len(h) :
          IF h[i].endpoint = "refresh"
          THEN h[i].status = 200 /\ h[i].access
          ELSE h[i].status = (IF i = 1 THEN 401 ELSE 200)

\* The mock server that answers 401 to every attempt of the original
\* endpoint while the refresh endpoint hands out a new access token.
MockAlways401(h) ==
    /\ Len(h) >= 1
    /\ h[1].stored
    /\ \A i \in 1..Len(h) :
          IF h[i].endpoint = "refresh"
          THEN h[i].status = 200 /\ h[i].access
          ELSE h[i].status = 401

\* The last thing the call heard is a failure of the refresh endpoint: a
\* network error, a timeout or a non-2xx answer.
RefreshCallFailed(h) ==
    /\ Len(h) >= 1
    /\ h[Len(h)].endpoint = "refresh"
    /\ ~(h[Len(h)].status >= 200 /\ h[Len(h)].status <= 299)

\* C1: every logical call makes at most one refresh attempt and at most two
\* attempts of its own endpoint, whatever the server answers.
C1_BoundedAttempts ==
    /\ \A p \in Procs : log[p].refresh <= 1 /\ log[p].orig <= 2
    /\ done.log.refresh <= 1 /\ done.log.orig <= 2

\* C2: against the server that answers 401 once and then 200, with a refresh
\* token stored and a refresh endpoint that hands out a new access token, a
\* call with retry enabled resolves after exactly two attempts of its
\* endpoint and exactly one call of the refresh endpoint.
C2_RetryOnceSucceeds ==
    (Completed /\ done.log.options.retry /\ MockOnce(Hist))
        => /\ done.req.result.ok
           /\ done.settle = "resolved"
           /\ done.log.orig = 2
           /\ done.log.refresh = 1

C2_Witness ==
    /\ Completed /\ done.kind = "request" /\ done.log.options.retry
    /\ MockOnce(Hist) /\ Len(Hist) = 3
    /\ done.settle = "resolved"

\* C3: against the server that answers 401 to the original and to the
\* re-issued request, the refresh in between succeeding, the re-issue runs
\* with retry = false and the call fails after exactly two attempts and one
\* refresh; there is never a third attempt or a second refresh.
C3_SecondUnauthorizedFails ==
    /\ \A p \in Procs :
          (stack[p] # <<>> /\ log[p].options.retry /\ MockAlways401(log[p].hist))
              => log[p].orig <= 2 /\ log[p].refresh <= 1
    /\ (Completed /\ done.log.options.retry /\ MockAlways401(Hist))
          => /\ ~done.req.result.ok
             /\ ~done.success
             /\ done.kind = "request" => done.settle = "rejected"
             /\ done.req.retry = FALSE
             /\ done.log.orig = 2
             /\ done.log.refresh = 1

C3_Witness ==
    /\ Completed /\ done.kind = "request" /\ done.log.options.retry
    /\ MockAlways401(Hist) /\ Len(Hist) = 3
    /\ done.settle = "rejected" /\ done.req.resp.status = 401

C5_NoRefreshTokenClearsSession ==
    (/\ Completed /\ done.log.options.auth /\ done.log.options.retry
     /\ Len(Hist) = 1 /\ Hist[1].status = 401 /\ ~Hist[1].stored)
        => /\ localStorage.access_token = Null
           /\ location = LoginPage

\* The message request derives from a 401 answer.
MessageOf401(body) ==
    IF body.json /\ body.detail # "" THEN body.detail
    ELSE IF body.json /\ body.error # "" THEN body.error
    ELSE "Error 401"

\* C6: when a request gets 401 and either no refresh token is stored or the
\* refresh does not deliver, the request is not re-issued and it rejects
\* with the error derived from the 401 answer.
C6_UnrefreshedPropagates ==
    (/\ Completed /\ done.log.options.retry
     /\ Hist[1].status = 401
     /\ ~Hist[1].stored \/ Hist[Len(Hist)].endpoint = "refresh")
        => /\ done.log.orig = 1
           /\ done.req.resp.status = 401
           /\ ~done.req.result.ok
           /\ done.req.result.error = [name |-> "Error", message |-> MessageOf401(done.req.resp.body)]
           /\ ~done.success
           /\ done.error = MessageOf401(done.req.resp.body)
           /\ done.kind = "request" => done.settle = "rejected"

C6_Witness ==
    /\ Completed /\ done.kind = "request" /\ done.log.options.retry
    /\ Hist[1].status = 401
    /\ Hist[Len(Hist)].endpoint = "refresh"
    /\ done.settle = "rejected"
    /\ done.error = "D"

\* C7: a request that has settled has no armed timeout timer.
C7_TimerCleared ==
    lastReq.endpoint # "none" => lastReq.timer # "armed"

\* C8: when the timer fires before fetch has resolved, the network
\* operation is aborted, the request rejects with the timeout error, and no
\* request whose timer has fired goes on running.
C8_TimeoutAbortsAndRejects ==
    /\ lastReq.timer = "fired"
          => /\ lastReq.net = "aborted"
             /\ ~lastReq.result.ok
             /\ lastReq.result.error = [name |-> "Error", message |-> TimeoutMessage]
    /\ \A f \in AllFrames : f.timer # "fired" /\ f.net # "aborted"
    /\ (Completed /\ done.req.timer = "fired")
          => /\ ~done.success
             /\ done.error = TimeoutMessage
             /\ done.kind = "request" => done.settle = "rejected"

C8_Witness ==
    /\ Completed /\ done.kind = "request"
    /\ done.req.timer = "fired" /\ done.req.net = "aborted"
    /\ done.req.resp.status = 200
    /\ done.settle = "rejected"

\* C9: every request sent, the re-issued request and the refresh call
\* included, carries Authorization: Bearer <token> with the access token
\* stored when it was sent if and only if auth is enabled and a token was
\* stored; otherwise it carries no Authorization header.
C9_AuthorizationHeader ==
    \A f \in AllFrames \cup {lastReq} :
        f.headers.Authorization =
            IF f.auth /\ f.tokenAtDispatch # Null
            THEN <<"Bearer", f.tokenAtDispatch>>
            ELSE <<>>

C9_Witness ==
    \E p \in Procs :
        /\ Len(stack[p]) = 1 /\ log[p].orig = 2
        /\ stack[p][1].auth
        /\ stack[p][1].headers.Authorization = <<"Bearer", localStorage.access_token>>
        /\ \E i \in 1..Len(log[p].hist) :
              log[p].hist[i].endpoint = "refresh" /\ log[p].hist[i].access

\* C10: a login whose answer carries access A and refresh R stores both and
\* makes isAuthenticated() true; the request begun next carries Bearer A;
\* a logout that follows the login makes isAuthenticated() false.
C10_Step ==
    /\ (/\ done'.kind = "login" /\ done'.req.net = "arrived"
        /\ done'.req.resp.status = 200 /\ done'.req.resp.body.json
        /\ done'.req.resp.body.access # Null /\ done'.req.resp.body.refresh # Null)
          => /\ done'.success
             /\ localStorage'.access_token = done'.req.resp.body.access
             /\ localStorage'.refresh_token = done'.req.resp.body.refresh
             /\ isAuthenticated(localStorage')
    /\ (done.kind = "login" /\ done.success)
          => \A p \in Procs :
                (stack[p] = <<>> /\ stack'[p] # <<>> /\ stack'[p][1].auth)
                    => stack'[p][1].headers.Authorization
                          = <<"Bearer", done.req.resp.body.access>>
    /\ (/\ done.kind = "login" /\ done.success
        /\ done' = NoDone /\ stack' = stack /\ calls' = calls)
          => ~isAuthenticated(localStorage')

C10_RoundTrip == [][C10_Step]_vars

C10_Witness ==
    /\ done.kind = "login" /\ done.success
    /\ done.req.resp.body.refresh # Null
    /\ localStorage.access_token = done.req.resp.body.access
    /\ localStorage.refresh_token = done.req.resp.body.refresh
    /\ isAuthenticated(localStorage)

\* C11: in every reachable state isAuthenticated() is true exactly when an
\* access token is stored, whatever the refresh token is.
C11_AuthenticatedIffAccess ==
    isAuthenticated(localStorage) <=> localStorage.access_token # 0

\* A refresh answered after a logout leaves an access token without a
\* refresh token: the two keys need not go together.
C11_Witness ==
    /\ localStorage.access_token # 0
    /\ localStorage.refresh_token = 0
    /\ isAuthenticated(localStorage)

RegisterKinds == {"register", "handleRegister"}
Anonymous(store) == store.access_token = Null /\ store.refresh_token = Null

LogoutRan ==
    \/ stack' = stack /\ calls' = calls /\ location' = LoginPage
    \/ lastReq'.endpoint = "refresh" /\ ~lastReq'.result.ok

\* C13: a logout, explicit or forced by a failed refresh, clears the whole
\* session: afterwards the access token, the refresh token and the cached
\* user profile are all absent.
C13_Step ==
    LogoutRan => /\ localStorage'.access_token = Null
                 /\ localStorage'.refresh_token = Null
                 /\ localStorage'.user = Null

C13_LogoutClearsSession == [][C13_Step]_vars

\* The answer of a refresh call that settled: 2xx with an access token.
RefreshDelivered(r) ==
    /\ r.endpoint = "refresh" /\ r.net = "arrived"
    /\ r.resp.status >= 200 /\ r.resp.status <= 299
    /\ r.resp.body.json /\ r.resp.body.access # Null

\* The top frame of slot p is the request of parent, sent again with
\* retry off and the headers of a store whose access token is token.
Reissued(frames, parent, token) ==
    /\ frames # <<>>
    /\ LET f == frames[Len(frames)]
       IN  /\ f.endpoint = parent.endpoint
           /\ f.pc = "fetch" /\ f.net = "sent"
           /\ f.retry = FALSE
           /\ f.auth = parent.auth
           /\ f.tokenAtDispatch = token
           /\ f.headers.Authorization = IF f.auth THEN <<"Bearer", token>> ELSE <<>>

\* C14: a refresh answered 2xx with an access token overwrites the stored
\* access_token with the new value and leaves the stored refresh_token as
\* it was; isAuthenticated() is true again and the request that got the 401
\* is sent again with the new token.
C14_Step ==
    RefreshDelivered(lastReq')
        => /\ localStorage'.access_token = lastReq'.resp.body.access
           /\ localStorage'.refresh_token = localStorage.refresh_token
           /\ localStorage'.user = localStorage.user
           /\ isAuthenticated(localStorage')
           /\ \E p \in Procs :
                 /\ Len(stack[p]) >= 2
                 /\ Top(p).endpoint = "refresh"
                 /\ Len(stack'[p]) = Len(stack[p]) - 1
                 /\ Reissued(stack'[p], stack[p][Len(stack[p]) - 1], lastReq'.resp.body.access)

C14_RefreshOverwritesAccess == [][C14_Step]_vars

C14_Witness ==
    /\ RefreshDelivered(lastReq)
    /\ localStorage.access_token = lastReq.resp.body.access
    /\ localStorage.access_token # lastReq.tokenAtDispatch
    /\ localStorage.refresh_token = RefreshOf(1)
    /\ \E p \in Procs :
          /\ Len(stack[p]) = 1
          /\ stack[p][1].endpoint = "api" /\ stack[p][1].retry = FALSE
          /\ stack[p][1].headers.Authorization = <<"Bearer", localStorage.access_token>>

\* C15: when the body of a success-status answer is not valid JSON, request
\* does not fail: it resolves with an empty object.
C15_InvalidJsonResolvesEmpty ==
    /\ (/\ lastReq.endpoint # "none" /\ lastReq.net = "arrived"
        /\ lastReq.resp.status >= 200 /\ lastReq.resp.status <= 299
        /\ ~lastReq.resp.body.json)
          => /\ lastReq.result.ok
             /\ lastReq.result.error = [name |-> "", message |-> ""]
             /\ lastReq.result.data = [access |-> 0, refresh |-> 0, detail |-> "",
                                       error |-> "", payload |-> ""]
    /\ (/\ done.kind = "request" /\ done.req.net = "arrived"
        /\ done.req.resp.status >= 200 /\ done.req.resp.status <= 299
        /\ ~done.req.resp.body.json)
          => /\ done.settle = "resolved"
             /\ done.data = [access |-> 0, refresh |-> 0, detail |-> "",
                             error |-> "", payload |-> ""]

C15_Witness ==
    /\ done.kind = "request" /\ done.settle = "resolved"
    /\ done.req.net = "arrived" /\ done.req.resp.status = 200
    /\ ~done.req.resp.body.json /\ done.req.resp.body.payload = "<html>"
    /\ done.data.payload = ""

\* C17: login never rejects, and whenever it returns success: false the
\* session store is exactly what it would be without the call: no token
\* has been written, overwritten or removed.
C17_FailedLoginLeavesStore ==
    /\ done.kind = "login" => done.settle = "resolved"
    /\ (done.kind = "login" /\ ~done.success) => localStorage = done.log.before

\* C18: once a logout has cleared the session the access token stays absent
\* until the next successful login: a step that stores an access token
\* where none was stored is the completion of a successful login.
C18_Step ==
    (localStorage.access_token = Null /\ localStorage'.access_token # Null)
        => done'.kind = "login" /\ done'.success

C18_AbsentUntilLogin == [][C18_Step]_vars

\* The call in slot p was answered 401 while a refresh token was stored.
Unauthorized(l) ==
    /\ l.options.auth /\ l.options.retry
    /\ Len(l.hist) >= 1
    /\ l.hist[1].status = 401 /\ l.hist[1].stored

\* C16: refreshes are not serialized.  Every request answered 401 with a
\* refresh token stored makes its own call of the refresh endpoint, whether
\* or not another refresh is in flight, and the access token in the store
\* is the one of the refresh answer that arrived last, even when a token
\* issued later has been stored before it.
C16_RefreshesNotSerialized ==
    /\ \A p \in Procs :
          (stack[p] # <<>> /\ Unauthorized(log[p])) => log[p].refresh >= 1
    /\ RefreshDelivered(lastReq)
          => localStorage.access_token = lastReq.resp.body.access

\* Two requests in flight were both answered 401 and each made one refresh
\* call; the refresh answered second arrived first and its token went out
\* with the re-issue of slot q; the store now holds the older token of the
\* refresh that arrived last.
C16_Witness ==
    /\ RefreshDelivered(lastReq)
    /\ localStorage.access_token = lastReq.resp.body.access
    /\ \E p, q \in Procs :
          /\ p # q
          /\ Unauthorized(log[p]) /\ Unauthorized(log[q])
          /\ log[p].refresh = 1 /\ log[q].refresh = 1
          /\ Len(stack[p]) = 1 /\ Len(stack[q]) = 1
          /\ stack[p][1].tokenAtDispatch = localStorage.access_token
          /\ stack[q][1].tokenAtDispatch > localStorage.access_token

\* C19: the search debounce is single-flight.  At most one timeout of the
\* search box is pending; every new input cancels the pending one and arms
\* its own; when the pending timeout fires, at the end of a burst of
\* inputs, exactly one loadEvents is begun, with the value of the last
\* input as the search filter and currentPage reset to 1, and no timeout
\* of the burst is left to begin another.
C19_Step ==
    /\ Cardinality(timers') <= 1
    /\ typed' # typed
          => /\ debounceTimer' \notin timers
             /\ timers' = {debounceTimer'}
    /\ Cardinality(timers') < Cardinality(timers)
          => /\ timers' = {}
             /\ Len(loads') = Len(loads) + 1
             /\ loads'[Len(loads')].status = "sent"
             /\ loads'[Len(loads')].params.page = 1
             /\ loads'[Len(loads')].params.search
                   = (IF searchInput = "" THEN "(absent)" ELSE searchInput)
             /\ state'.filters.search = searchInput
             /\ state'.currentPage = 1

C19_SearchDebounce == [][C19_Step]_vars

\* A burst of two inputs has ended with one loadEvents, the second call of
\* the page, carrying the text of the box; no timeout is pending.
C19_Witness ==
    /\ typed = 2 /\ timers = {}
    /\ Len(loads) = 2
    /\ loads[2].params.search = searchInput /\ searchInput \in Queries
    /\ loads[2].params.page = 1
    /\ state.filters.search = searchInput
    /\ state.currentPage = 1

AllLoadsSettled == \A i \in 1..Len(loads) : loads[i].status # "sent"

\* C20: when every loadEvents call has completed and the most recently
\* begun one was answered, state.events and state.totalPages are those of
\* its answer, in whatever order the answers arrived.
C20_LatestRequestWins ==
    (AllLoadsSettled /\ loads[Len(loads)].status = "done")
        => /\ state.events = loads[Len(loads)].resp.results
           /\ state.totalPages = Ceil(loads[Len(loads)].resp.count, PageSize)

Settled(status) == status = "done" \/ status = "failed"

\* C21: dashboard start-up.  With no access token stored the page is sent
\* to the login form and no loader ever runs; otherwise the three loaders
\* are started in the same step; a loader that fails shows "0" and leaves
\* the other loaders as they are; the listeners are installed exactly when
\* all three loaders have settled.
C21_Step ==
    /\ (dashboard.phase = "unloaded" /\ dashboard'.phase # "unloaded")
          => IF localStorage.access_token = Null
             THEN /\ location' = "login.html"
                  /\ dashboard'.phase = "redirected"
             ELSE /\ dashboard'.phase = "started"
                  /\ \A l \in {"events", "tickets", "stats"} :
                        dashboard'.loaders[l] # "idle"
    /\ dashboard'.phase = "redirected"
          => /\ \A l \in {"events", "tickets", "stats"} : dashboard'.loaders[l] = "idle"
             /\ ~dashboard'.listeners
    /\ \A l \in {"events", "tickets", "stats"} :
          (dashboard.loaders[l] = "pending" /\ dashboard'.loaders[l] = "failed")
              => /\ dashboard'.counters[l] = "0"
                 /\ \A m \in {"events", "tickets", "stats"} \ {l} :
                       /\ dashboard'.loaders[m] = dashboard.loaders[m]
                       /\ dashboard'.counters[m] = dashboard.counters[m]
    /\ dashboard'.listeners
          <=> \A l \in {"events", "tickets", "stats"} : Settled(dashboard'.loaders[l])

C21_DashboardStartup == [][C21_Step]_vars

\* loadMyEvents has failed and shows "0"; loadMyTickets, settled after it,
\* shows its count; the listeners are installed.
C21_Witness ==
    /\ dashboard.phase = "started"
    /\ dashboard.loaders["events"] = "failed" /\ dashboard.counters["events"] = "0"
    /\ dashboard.loaders["tickets"] = "done" /\ dashboard.counters["tickets"] = "2"
    /\ dashboard.loaders["stats"] = "done"
    /\ dashboard.listeners

\* The guard has sent an anonymous visitor away: nothing was loaded.
C21_WitnessGuard ==
    /\ dashboard.phase = "redirected" /\ location = "login.html"
    /\ localStorage.access_token = Null
    /\ dashboard.counters["stats"] = ""

\* C22: pagination stays in range.  In every state
\* 1 <= state.currentPage <= max(1, state.totalPages), and a step that
\* moves to a page other than the first goes to a page that was within
\* 1..totalPages when it was taken.
C22_Step ==
    /\ 1 <= state'.currentPage
    /\ state'.currentPage <= (IF state'.totalPages > 1 THEN state'.totalPages ELSE 1)
    /\ (state'.currentPage # state.currentPage /\ state'.currentPage # 1)
          => state'.currentPage <= state.totalPages

C22_PageInRange == [][C22_Step]_vars

\* C23: state.selectedEvent is non-null exactly when the event modal is
\* shown, in every state in which openEventModal (its failures included),
\* closeEventModal and purchaseTicket have left the page: no openEventModal
\* call is between two of its awaits.
C23_SelectedIffShown ==
    opens = <<>> => ((state.selectedEvent # 0) <=> (modal = "flex"))

====
